---------------------------- MODULE Spec2Model ----------------------------
(***************************************************************************)
(* A model of the envelope engine of encrypted-message: the base64 codec,  *)
(* the JSON (de)serialization of payloads, the nonce strategies, the       *)
(* AES-256-GCM adapter and the encrypt / decrypt operations of             *)
(* EncryptedMessage (src/src/lib.rs).                                      *)
(*                                                                         *)
(* Bytes are the integers 0..255 and texts are sequences of character      *)
(* codes.  The cryptographic primitives of the external crates (aes-gcm,   *)
(* hmac, sha2) are replaced by small arithmetic stand-ins of the same      *)
(* structure over the prime field of size FieldPrime: a counter-mode       *)
(* stream cipher with a polynomial authentication tag for AES-GCM and a    *)
(* keyed polynomial digest for HMAC-SHA256.                                *)
(***************************************************************************)
EXTENDS Integers, Sequences, FiniteSets, TLC

(***************************************************************************)
(* Sizes fixed by the program.                                             *)
(***************************************************************************)
KeyLen == 32
NonceLen == 12
TagLen == 16
DigestLen == 32
StrategyNonceLen == 24

(***************************************************************************)
(* Bounds of the model.                                                    *)
(***************************************************************************)
MaxKeys == 2
NumDraws == 2
MaxIterations == 2
NumThreads == 2

\* the size of the prime field the stand-ins of the cipher and the MAC compute in
FieldPrime == 32749

(***************************************************************************)
(* utilities/base64.rs : the STANDARD engine (alphabet A-Z a-z 0-9 + /,    *)
(* canonical '=' padding required on decode).                              *)
(***************************************************************************)
PadChar == 61

Alphabet ==
    [i \in 1..26 |-> 64 + i] \o [i \in 1..26 |-> 96 + i] \o
    [i \in 1..10 |-> 47 + i] \o <<43, 47>>

Sextet(c) ==
    IF c >= 65 /\ c <= 90 THEN c - 65
    ELSE IF c >= 97 /\ c <= 122 THEN c - 71
    ELSE IF c >= 48 /\ c <= 57 THEN c + 4
    ELSE IF c = 43 THEN 62
    ELSE IF c = 47 THEN 63
    ELSE -1

Symbol(v) == Alphabet[v + 1]

\* base64::engine::general_purpose::STANDARD.encode
encode(input) ==
    LET n == Len(input)
        byte(i) == IF i <= n THEN input[i] ELSE 0
        sym(k) ==
            LET q == 3 * ((k - 1) \div 4)
                j == (k - 1) % 4
            IN  IF j = 0 THEN Symbol(byte(q + 1) \div 4)
                ELSE IF j = 1 THEN Symbol((byte(q + 1) % 4) * 16 + (byte(q + 2) \div 16))
                ELSE IF j = 2 THEN
                    IF q + 2 > n THEN PadChar
                    ELSE Symbol((byte(q + 2) % 16) * 4 + (byte(q + 3) \div 64))
                ELSE IF q + 3 > n THEN PadChar
                ELSE Symbol(byte(q + 3) % 64)
    IN  [k \in 1..(4 * ((n + 2) \div 3)) |-> sym(k)]

\* A faulty variant: characters outside the alphabet and stray lengths are let through.
decode_Lenient(input) ==
    LET m == Len(input) - (Len(input) % 4)
        n == 3 * (m \div 4)
        val(k) == IF Sextet(input[k]) < 0 THEN 0 ELSE Sextet(input[k])
        byte(i) ==
            LET q == 4 * ((i - 1) \div 3)
                j == (i - 1) % 3
            IN  IF j = 0 THEN val(q + 1) * 4 + (val(q + 2) \div 16)
                ELSE IF j = 1 THEN (val(q + 2) % 16) * 16 + (val(q + 3) \div 4)
                ELSE (val(q + 3) % 4) * 64 + val(q + 4)
    IN  [ok |-> TRUE, bytes |-> [i \in 1..n |-> byte(i)]]

\* base64::engine::general_purpose::STANDARD.decode: the length is a multiple
\* of four, every character is of the alphabet, '=' pads only the last
\* quantum, and the bits the padding drops are zero
decode(input) ==
    LET m == Len(input)
        pads == IF m >= 2 /\ input[m] = PadChar /\ input[m - 1] = PadChar THEN 2
                ELSE IF m >= 1 /\ input[m] = PadChar THEN 1
                ELSE 0
        n == 3 * (m \div 4) - pads
        val(k) == Sextet(input[k])
        byte(i) ==
            LET q == 4 * ((i - 1) \div 3)
                j == (i - 1) % 3
            IN  IF j = 0 THEN val(q + 1) * 4 + (val(q + 2) \div 16)
                ELSE IF j = 1 THEN (val(q + 2) % 16) * 16 + (val(q + 3) \div 4)
                ELSE (val(q + 3) % 4) * 64 + val(q + 4)
        valid ==
            /\ m % 4 = 0
            /\ \A k \in 1..(m - pads) : val(k) >= 0
            /\ pads = 2 => val(m - 2) % 16 = 0
            /\ pads = 1 => val(m - 1) % 4 = 0
    IN  IF valid THEN [ok |-> TRUE, bytes |-> [i \in 1..n |-> byte(i)]]
        ELSE [ok |-> FALSE, bytes |-> <<>>]

(***************************************************************************)
(* Payloads.  A JSON value is a record tagged by t; a payload is a JSON    *)
(* value together with the Rust type P it is an instance of.               *)
(***************************************************************************)
JNull == [t |-> "null"]
JBool(b) == [t |-> "bool", b |-> b]
JNum(n) == [t |-> "num", n |-> n]
JStr(s) == [t |-> "str", s |-> s]
JArr(xs) == [t |-> "arr", a |-> xs]
JObj(kvs) == [t |-> "obj", o |-> kvs]
\* a Rust map whose keys are values of any type (HashMap<K, V>)
JMap(kvs) == [t |-> "map", m |-> kvs]

Digit(d) == 48 + d

RECURSIVE Digits(_)
Digits(n) == IF n < 10 THEN <<Digit(n)>> ELSE Digits(n \div 10) \o <<Digit(n % 10)>>

\* Does serde_json::to_vec return Ok?  The serializer of map keys accepts
\* strings and integers and fails with "key must be a string" on the rest.
RECURSIVE Serializable(_)
Serializable(val) ==
    CASE val.t = "arr" -> \A j \in 1..Len(val.a) : Serializable(val.a[j])
      [] val.t = "obj" -> \A j \in 1..Len(val.o) : Serializable(val.o[j][2])
      [] val.t = "map" -> \A j \in 1..Len(val.m) :
                              /\ val.m[j][1].t \in {"str", "num"}
                              /\ Serializable(val.m[j][2])
      [] OTHER -> TRUE

\* serde_json::to_vec, for the value shapes of the model (compact output,
\* strings without characters that need escaping); the bytes written when
\* the value is Serializable.
RECURSIVE to_vec(_), WriteElems(_), WriteMembers(_), WriteEntries(_)
to_vec(val) ==
    CASE val.t = "null" -> <<110, 117, 108, 108>>
      [] val.t = "bool" -> IF val.b THEN <<116, 114, 117, 101>>
                                    ELSE <<102, 97, 108, 115, 101>>
      [] val.t = "num" -> Digits(val.n)
      [] val.t = "str" -> <<34>> \o val.s \o <<34>>
      [] val.t = "arr" -> <<91>> \o WriteElems(val.a) \o <<93>>
      [] val.t = "obj" -> <<123>> \o WriteMembers(val.o) \o <<125>>
      [] val.t = "map" -> <<123>> \o WriteEntries(val.m) \o <<125>>

WriteElems(xs) ==
    IF Len(xs) = 0 THEN <<>>
    ELSE IF Len(xs) = 1 THEN to_vec(xs[1])
    ELSE to_vec(xs[1]) \o <<44>> \o WriteElems(Tail(xs))

WriteMembers(kvs) ==
    IF Len(kvs) = 0 THEN <<>>
    ELSE LET m == <<34>> \o kvs[1][1] \o <<34, 58>> \o to_vec(kvs[1][2])
         IN  IF Len(kvs) = 1 THEN m ELSE m \o <<44>> \o WriteMembers(Tail(kvs))

WriteEntries(kvs) ==
    IF Len(kvs) = 0 THEN <<>>
    ELSE LET k == IF kvs[1][1].t = "str" THEN kvs[1][1].s ELSE Digits(kvs[1][1].n)
             m == <<34>> \o k \o <<34, 58>> \o to_vec(kvs[1][2])
         IN  IF Len(kvs) = 1 THEN m ELSE m \o <<44>> \o WriteEntries(Tail(kvs))

\* serde_json's parser: a value starting at position i of b.
\* The result is [ok, val, pos] with pos the position after the value.
ParseFail == [ok |-> FALSE, val |-> JNull, pos |-> 0]

Matches(b, i, word) ==
    /\ i + Len(word) - 1 <= Len(b)
    /\ SubSeq(b, i, i + Len(word) - 1) = word

IsDigit(c) == c >= 48 /\ c <= 57

RECURSIVE ScanString(_, _), ScanDigits(_, _)
\* position of the closing quote of the string whose content starts at i, or 0
ScanString(b, i) ==
    IF i > Len(b) THEN 0
    ELSE IF b[i] = 34 THEN i
    ELSE IF b[i] = 92 \/ b[i] < 32 THEN 0
    ELSE ScanString(b, i + 1)

\* position after the last digit of the run of digits starting at i
ScanDigits(b, i) ==
    IF i <= Len(b) /\ IsDigit(b[i]) THEN ScanDigits(b, i + 1) ELSE i

RECURSIVE NumberOf(_)
NumberOf(ds) ==
    IF Len(ds) = 0 THEN 0
    ELSE NumberOf(SubSeq(ds, 1, Len(ds) - 1)) * 10 + (ds[Len(ds)] - 48)

ParseString(b, i) ==
    LET e == ScanString(b, i + 1)
    IN  IF e = 0 THEN ParseFail
        ELSE [ok |-> TRUE, val |-> JStr(SubSeq(b, i + 1, e - 1)), pos |-> e + 1]

ParseNumber(b, i) ==
    LET e == IF b[i] = 48 THEN i + 1 ELSE ScanDigits(b, i)
    IN  IF e - i > 9 THEN ParseFail
        ELSE [ok |-> TRUE, val |-> JNum(NumberOf(SubSeq(b, i, e - 1))), pos |-> e]

RECURSIVE ParseValue(_, _), ParseElems(_, _, _), ParseMembers(_, _, _)
ParseValue(b, i) ==
    IF i > Len(b) THEN ParseFail
    ELSE IF b[i] = 110 THEN
        IF Matches(b, i, <<110, 117, 108, 108>>)
        THEN [ok |-> TRUE, val |-> JNull, pos |-> i + 4] ELSE ParseFail
    ELSE IF b[i] = 116 THEN
        IF Matches(b, i, <<116, 114, 117, 101>>)
        THEN [ok |-> TRUE, val |-> JBool(TRUE), pos |-> i + 4] ELSE ParseFail
    ELSE IF b[i] = 102 THEN
        IF Matches(b, i, <<102, 97, 108, 115, 101>>)
        THEN [ok |-> TRUE, val |-> JBool(FALSE), pos |-> i + 5] ELSE ParseFail
    ELSE IF b[i] = 34 THEN ParseString(b, i)
    ELSE IF IsDigit(b[i]) THEN ParseNumber(b, i)
    ELSE IF b[i] = 91 THEN
        IF i + 1 <= Len(b) /\ b[i + 1] = 93
        THEN [ok |-> TRUE, val |-> JArr(<<>>), pos |-> i + 2]
        ELSE ParseElems(b, i + 1, <<>>)
    ELSE IF b[i] = 123 THEN
        IF i + 1 <= Len(b) /\ b[i + 1] = 125
        THEN [ok |-> TRUE, val |-> JObj(<<>>), pos |-> i + 2]
        ELSE ParseMembers(b, i + 1, <<>>)
    ELSE ParseFail

\* the elements of an array after '[' or ',', acc the elements read so far
ParseElems(b, i, acc) ==
    LET r == ParseValue(b, i)
    IN  IF ~r.ok \/ r.pos > Len(b) THEN ParseFail
        ELSE IF b[r.pos] = 93
            THEN [ok |-> TRUE, val |-> JArr(Append(acc, r.val)), pos |-> r.pos + 1]
        ELSE IF b[r.pos] = 44 THEN ParseElems(b, r.pos + 1, Append(acc, r.val))
        ELSE ParseFail

\* the members of an object after '{' or ',', acc the members read so far
ParseMembers(b, i, acc) ==
    IF i > Len(b) \/ b[i] # 34 THEN ParseFail
    ELSE LET k == ParseString(b, i)
         IN  IF ~k.ok \/ k.pos > Len(b) \/ b[k.pos] # 58 THEN ParseFail
             ELSE LET r == ParseValue(b, k.pos + 1)
                      m == Append(acc, <<k.val.s, r.val>>)
                  IN  IF ~r.ok \/ r.pos > Len(b) THEN ParseFail
                      ELSE IF b[r.pos] = 125
                          THEN [ok |-> TRUE, val |-> JObj(m), pos |-> r.pos + 1]
                      ELSE IF b[r.pos] = 44 THEN ParseMembers(b, r.pos + 1, m)
                      ELSE ParseFail

\* Does the JSON value have the shape the payload type P deserializes from?
Conforms(P, val) ==
    CASE P = "String" -> val.t = "str"
      [] P = "OptString" -> val.t \in {"null", "str"}
      [] P = "Bool" -> val.t = "bool"
      [] P = "U8" -> val.t = "num" /\ val.n <= 255
      [] P = "VecU8" -> /\ val.t = "arr"
                        /\ \A j \in 1..Len(val.a) : val.a[j].t = "num" /\ val.a[j].n <= 255
      [] P = "Value" -> TRUE

\* serde_json::from_slice::<P>: the whole input must be one value of type P.
from_slice(P, b) ==
    LET r == ParseValue(b, 1)
    IN  IF r.ok /\ r.pos = Len(b) + 1 /\ Conforms(P, r.val)
        THEN [ok |-> TRUE, val |-> r.val]
        ELSE [ok |-> FALSE, val |-> JNull]

(***************************************************************************)
(* Keys.  A key is KeyLen bytes (Secret<[u8; 32]>); a key configuration    *)
(* is the ordered list keys() returns.                                     *)
(***************************************************************************)
KeyA == [i \in 1..KeyLen |-> (3 * i + 1) % 256]
KeyB == [i \in 1..KeyLen |-> (5 * i + 2) % 256]
Keys == {KeyA, KeyB}

RECURSIVE SeqsUpTo(_, _)
SeqsUpTo(S, n) ==
    IF n = 0 THEN {<<>>}
    ELSE LET shorter == SeqsUpTo(S, n - 1)
         IN  shorter \cup {Append(q, e) : q \in {r \in shorter : Len(r) = n - 1}, e \in S}

KeyConfigs == SeqsUpTo(Keys, MaxKeys)

\* A faulty variant: the newest key is taken to be the last of the list.
primary_key_Last(keys) ==
    IF Len(keys) = 0 THEN [ok |-> FALSE, key |-> <<>>]
    ELSE [ok |-> TRUE, key |-> keys[Len(keys)]]

\* Config::primary_key: the first key of keys(), if there is one.
primary_key(keys) ==
    IF Len(keys) = 0 THEN [ok |-> FALSE, key |-> <<>>]
    ELSE [ok |-> TRUE, key |-> keys[1]]

(***************************************************************************)
(* Stand-ins for the primitives of the crates aes-gcm and hmac.            *)
(***************************************************************************)
\* Aes256Gcm::new_from_slice and Hmac::new_from_slice: the key schedule, a
\* point of the field that is never 0 or 1.  It reads the two first and the
\* two last bytes of the key, where the keys of the model differ.
new_from_slice(key) ==
    2 + ((key[1] + 3 * key[2] + 5 * key[KeyLen - 1] + 7 * key[KeyLen]) % (FieldPrime - 40))

\* the polynomial with coefficients data[i] + 1, from i on, evaluated at x
\* (Horner) starting from acc
RECURSIVE Poly(_, _, _, _)
Poly(x, data, i, acc) ==
    IF i > Len(data) THEN acc
    ELSE Poly(x, data, i + 1, (acc * x + data[i] + 1) % FieldPrime)

\* E_K(nonce || counter) for the key schedule ks, given nb = E over the nonce
NonceBlock(ks, nonce) == Poly(ks + 1, nonce, 1, 1)
CounterBlock(ks, nb, ctr) == (nb * (ks + 1) + ctr + 1) % FieldPrime

\* GHASH_H(buffer) with H derived from the key
GHash(ks, buffer) == Poly(ks, buffer, 1, 1)

ComputeTag(ks, nonce, buffer) ==
    LET t == (GHash(ks, buffer) + CounterBlock(ks, NonceBlock(ks, nonce), 0)) % FieldPrime
    IN  [i \in 1..TagLen |-> IF i = TagLen THEN t % 256
                             ELSE IF i = TagLen - 1 THEN t \div 256
                             ELSE 0]

\* the buffer with the keystream added (sign 1) or taken away (sign -1)
ApplyKeystream(ks, nonce, buffer, sign) ==
    LET nb == NonceBlock(ks, nonce)
    IN  [i \in 1..Len(buffer) |->
            (buffer[i] + sign * (CounterBlock(ks, nb, i) % 256) + 256) % 256]

\* Aes256Gcm::encrypt_in_place_detached with empty associated data
encrypt_in_place_detached(cipher, nonce, buffer) ==
    LET ct == ApplyKeystream(cipher, nonce, buffer, 1)
    IN  [buffer |-> ct, tag |-> ComputeTag(cipher, nonce, ct)]

\* Aes256Gcm::decrypt_in_place_detached with empty associated data:
\* the buffer is decrypted only when the tag verifies
decrypt_in_place_detached(cipher, nonce, buffer, tag) ==
    IF ComputeTag(cipher, nonce, buffer) = tag
    THEN [ok |-> TRUE, buffer |-> ApplyKeystream(cipher, nonce, buffer, -1)]
    ELSE [ok |-> FALSE, buffer |-> buffer]

\* Hmac::<Sha256>: mac.update(payload); mac.finalize()
HmacSha256(key, payload) ==
    LET ks == new_from_slice(key)
        h1 == Poly(ks + 2, payload, 1, 1)
        h2 == Poly(ks + 3, payload, 1, 1)
    IN  [j \in 1..DigestLen |-> ((h1 * (j + 1) + h2 * j) % FieldPrime) % 256]

(***************************************************************************)
(* key_config.rs : a key configuration holds its raw keys, a salt and the  *)
(* number of PBKDF2 iterations (None when key derivation is disabled).     *)
(***************************************************************************)
\* pbkdf2_hmac_array::<Sha256, 32>: a stand-in of the same structure, the
\* blocks U1 = PRF(password, salt || 1), U(i+1) = PRF(password, U(i)) folded
\* together over the iterations; the password may have any length
RECURSIVE Fold(_, _, _, _)
Fold(ks, u, t, left) ==
    IF left = 0 THEN t
    ELSE LET next == (u * ks + 1) % FieldPrime
         IN  Fold(ks, next, (t + next) % FieldPrime, left - 1)

pbkdf2_hmac_array(password, salt, iterations) ==
    LET ks == 2 + (Poly(3, password, 1, 1) % (FieldPrime - 40))
        u1 == Poly(ks, salt \o <<0, 0, 0, 1>>, 1, 1)
        t == Fold(ks, u1, u1, iterations - 1)
    IN  [j \in 1..KeyLen |-> ((t * (j + 1) + ks * j) % FieldPrime) % 256]

None == [some |-> FALSE, n |-> 0]
Some(n) == [some |-> TRUE, n |-> n]

\* A faulty variant: the salt of the configuration is left out.
derive_key_NoSalt(cfg, raw) ==
    IF ~cfg.iterations.some
    THEN IF Len(raw) = KeyLen THEN [kind |-> "Ok", key |-> raw]
         ELSE [kind |-> "Panic", key |-> <<>>]
    ELSE [kind |-> "Ok", key |-> pbkdf2_hmac_array(raw, <<>>, cfg.iterations.n)]

\* KeyConfig::derive_key: with derivation disabled the raw key is converted
\* to [u8; 32] with expect(), which panics on any other length
derive_key(cfg, raw) ==
    IF ~cfg.iterations.some
    THEN IF Len(raw) = KeyLen THEN [kind |-> "Ok", key |-> raw]
         ELSE [kind |-> "Panic", key |-> <<>>]
    ELSE [kind |-> "Ok", key |-> pbkdf2_hmac_array(raw, cfg.salt, cfg.iterations.n)]

\* A faulty variant: the key added last is taken for the primary key.
KeyConfig_key_UsesLast(cfg) ==
    IF Len(cfg.raw_keys) = 0 THEN [kind |-> "Panic", key |-> <<>>]
    ELSE derive_key(cfg, cfg.raw_keys[Len(cfg.raw_keys)])

\* KeyConfig::key: the primary key, derived; assert!(!keys.is_empty())
KeyConfig_key(cfg) ==
    IF Len(cfg.raw_keys) = 0 THEN [kind |-> "Panic", key |-> <<>>]
    ELSE derive_key(cfg, cfg.raw_keys[1])

\* raw keys: none, a short password, and keys around the length of a key
RawLens == {0, 5, KeyLen - 1, KeyLen, KeyLen + 1}
RawOf(n, seed) == [i \in 1..n |-> (seed * i + 11) % 256]
RawKeys == {RawOf(n, 7) : n \in RawLens} \cup {RawOf(KeyLen, 9)}
Salts == { <<115, 49>>, <<115, 50>> }
Iterations == {None} \cup {Some(n) : n \in 1..MaxIterations}
RawKeyConfigs ==
    [iterations : Iterations, salt : Salts, raw_keys : SeqsUpTo(RawKeys, MaxKeys)]

(***************************************************************************)
(* The key decoders: a list of keys stored as strings, decoded to keys.    *)
(***************************************************************************)
\* the value of a hexadecimal digit, of either case, or -1
HexVal(c) ==
    IF c >= 48 /\ c <= 57 THEN c - 48
    ELSE IF c >= 97 /\ c <= 102 THEN c - 87
    ELSE IF c >= 65 /\ c <= 70 THEN c - 55
    ELSE -1

\* hex::decode_to_slice(text, out) for out of n bytes: the text must be 2n
\* hexadecimal digits
decode_to_slice(text, n) ==
    IF Len(text) = 2 * n /\ \A j \in 1..Len(text) : HexVal(text[j]) >= 0
    THEN [ok |-> TRUE,
          bytes |-> [i \in 1..n |-> 16 * HexVal(text[2 * i - 1]) + HexVal(text[2 * i])]]
    ELSE [ok |-> FALSE, bytes |-> <<>>]

\* A faulty variant: a string that is not a key is left out of the list.
Base64KeyDecoder_decode_keys_SkipsBad(texts) ==
    LET good == {i \in 1..Len(texts) :
                    decode(texts[i]).ok /\ Len(decode(texts[i]).bytes) = KeyLen}
        pick[i \in 0..Len(texts)] ==
            IF i = 0 THEN <<>>
            ELSE IF i \in good THEN Append(pick[i - 1], decode(texts[i]).bytes)
            ELSE pick[i - 1]
    IN  [kind |-> "Ok", keys |-> pick[Len(texts)]]

\* Base64KeyDecoder::decode_keys: both unwraps panic
Base64KeyDecoder_decode_keys(texts) ==
    IF \A i \in 1..Len(texts) :
          decode(texts[i]).ok /\ Len(decode(texts[i]).bytes) = KeyLen
    THEN [kind |-> "Ok", keys |-> [i \in 1..Len(texts) |-> decode(texts[i]).bytes]]
    ELSE [kind |-> "Panic", keys |-> <<>>]

\* HexKeyDecoder::decode_keys: the unwrap panics
HexKeyDecoder_decode_keys(texts) ==
    IF \A i \in 1..Len(texts) : decode_to_slice(texts[i], KeyLen).ok
    THEN [kind |-> "Ok",
          keys |-> [i \in 1..Len(texts) |-> decode_to_slice(texts[i], KeyLen).bytes]]
    ELSE [kind |-> "Panic", keys |-> <<>>]

decode_keys(decoder, texts) ==
    IF decoder = "Base64" THEN Base64KeyDecoder_decode_keys(texts)
    ELSE HexKeyDecoder_decode_keys(texts)

(***************************************************************************)
(* The nonce strategies.                                                   *)
(***************************************************************************)
Strategies == {"Deterministic", "Randomized"}

\* rand::random(): the r-th output of the CSPRNG, NonceLen bytes; the outputs
\* are taken to be pairwise different
RandomDraws == 1..NumDraws
RandomBytes(r) == [i \in 1..NonceLen |-> (89 * r + 17 * i) % 256]

\* A faulty variant: the digest is taken over nothing, so the nonce depends on the key only.
DeterministicNonce_KeyOnly(payload, key) ==
    LET digest == HmacSha256(key, <<>>)
    IN  [i \in 1..NonceLen |-> digest[i]]

DeterministicNonce(payload, key) ==
    LET digest == HmacSha256(key, payload)
    IN  [i \in 1..NonceLen |-> digest[i]]

\* A faulty variant: a fixed nonce instead of a draw.
RandomizedNonce_Fixed(r) == [i \in 1..NonceLen |-> 0]

RandomizedNonce(r) == RandomBytes(r)

\* A faulty variant: both strategies ask the CSPRNG.
generate_nonce_for_AlwaysRandom(S, payload, key, r) == RandomizedNonce(r)

generate_nonce_for(S, payload, key, r) ==
    IF S = "Deterministic" THEN DeterministicNonce(payload, key)
    ELSE RandomizedNonce(r)

\* Strategy::generate_nonce of strategy.rs: a nonce of StrategyNonceLen
\* bytes, the head of the digest for Deterministic and an output of the
\* CSPRNG for Randomized.  HMAC takes a key of any length, so the
\* InvalidKeyLength branch is not taken.
generate_nonce(S, payload, key, r) ==
    IF S = "Deterministic"
    THEN LET digest == HmacSha256(key, payload)
         IN  [ok |-> TRUE, nonce |-> [i \in 1..StrategyNonceLen |-> digest[i]]]
    ELSE [ok |-> TRUE, nonce |-> [i \in 1..StrategyNonceLen |-> (89 * r + 17 * i) % 256]]

(***************************************************************************)
(* The envelope and the two operations of EncryptedMessage.                *)
(***************************************************************************)
NoMsg == [p |-> <<>>, h |-> [iv |-> <<>>, at |-> <<>>]]

\* A faulty variant: the serialized payload is stored instead of the encrypted buffer.
encrypt_with_key_config_StoresPlain(S, payload, keys, r) ==
    IF ~payload.serializable THEN [kind |-> "Serialization", msg |-> NoMsg]
    ELSE LET bytes == to_vec(payload.val)
             pk == primary_key(keys)
         IN  IF ~pk.ok THEN [kind |-> "Panic", msg |-> NoMsg]
             ELSE LET nonce == generate_nonce_for(S, bytes, pk.key, r)
                      sealed == encrypt_in_place_detached(new_from_slice(pk.key), nonce, bytes)
                  IN  [kind |-> "Ok",
                       msg |-> [p |-> encode(bytes),
                                h |-> [iv |-> encode(nonce),
                                      at |-> encode(sealed.tag)]]]

\* An EncryptedMessage<P, S, K> value: the fields of the envelope msg with
\* the bindings of its type.
Bound(msg, P, S) ==
    [p |-> msg.p, h |-> msg.h, payload_type |-> P, strategy |-> S,
     key_config |-> "TestKeyConfig"]

\* A faulty variant: the strategy binding is written as a third member.
to_value_WithStrategy(em) ==
    JObj(<< << <<112>>, JStr(em.p) >>,
            << <<104>>, JObj(<< << <<105, 118>>, JStr(em.h.iv) >>,
                                << <<97, 116>>, JStr(em.h.at) >> >>) >>,
            << <<115>>, JStr(IF em.strategy = "Randomized" THEN <<114>> ELSE <<100>>) >> >>)

\* derive(Serialize) on EncryptedMessage and EncryptedMessageHeaders: the
\* fields in declaration order under their serde names, the serde(skip)
\* fields left out.
to_value(em) ==
    JObj(<< << <<112>>, JStr(em.p) >>,
            << <<104>>, JObj(<< << <<105, 118>>, JStr(em.h.iv) >>,
                                << <<97, 116>>, JStr(em.h.at) >> >>) >> >>)

\* the members of the JSON object val that are named name
Members(val, name) == {j \in 1..Len(val.o) : val.o[j][1] = name}

\* the one string member named name of the JSON object val, if there is
\* exactly one
StringMember(val, name) ==
    IF val.t = "obj" /\ Cardinality(Members(val, name)) = 1
    THEN LET m == val.o[CHOOSE j \in Members(val, name) : TRUE][2]
         IN  IF m.t = "str" THEN [ok |-> TRUE, s |-> m.s] ELSE [ok |-> FALSE, s |-> <<>>]
    ELSE [ok |-> FALSE, s |-> <<>>]

\* A faulty variant: the members are read by position, p first and h second,
\* iv first and at second.
from_value_Positional(P, S, val) ==
    LET shaped(v) == v.t = "obj" /\ Len(v.o) = 2 /\ v.o[1][2].t = "str"
    IN  IF shaped(val) /\ val.o[2][2].t = "obj"
        THEN LET h == val.o[2][2]
             IN  IF shaped(h) /\ h.o[2][2].t = "str"
                 THEN [ok |-> TRUE,
                       em |-> Bound([p |-> val.o[1][2].s,
                                     h |-> [iv |-> h.o[1][2].s, at |-> h.o[2][2].s]], P, S)]
                 ELSE [ok |-> FALSE, em |-> Bound(NoMsg, P, S)]
        ELSE [ok |-> FALSE, em |-> Bound(NoMsg, P, S)]

\* derive(Deserialize) on EncryptedMessage<P, S, K>: p and h are required,
\* other members are ignored, the serde(skip) fields come from the type.
from_value(P, S, val) ==
    LET pf == StringMember(val, <<112>>)
        hs == IF val.t = "obj" THEN Members(val, <<104>>) ELSE {}
        hv == IF Cardinality(hs) = 1 THEN val.o[CHOOSE j \in hs : TRUE][2] ELSE JNull
        iv == StringMember(hv, <<105, 118>>)
        at == StringMember(hv, <<97, 116>>)
    IN  IF pf.ok /\ iv.ok /\ at.ok
        THEN [ok |-> TRUE,
              em |-> Bound([p |-> pf.s, h |-> [iv |-> iv.s, at |-> at.s]], P, S)]
        ELSE [ok |-> FALSE, em |-> Bound(NoMsg, P, S)]

\* The order a jsonb column keeps the members of an object in: shorter names
\* first, names of one length by their bytes.
RECURSIVE BytesBefore(_, _)
BytesBefore(a, b) ==
    IF Len(a) = 0 \/ Len(b) = 0 THEN Len(a) < Len(b)
    ELSE IF a[1] # b[1] THEN a[1] < b[1]
    ELSE BytesBefore(Tail(a), Tail(b))

NameBefore(a, b) == Len(a) < Len(b) \/ (Len(a) = Len(b) /\ BytesBefore(a, b))

\* what a column of the SQL type col holds after the JSON value val is
\* written to it: a json column keeps the members as written, a jsonb column
\* keeps them sorted, at every depth
RECURSIVE Column(_, _), SortMembers(_, _)
Column(col, val) ==
    IF col = "Jsonb" /\ val.t = "obj" THEN JObj(SortMembers(col, val.o))
    ELSE IF col = "Jsonb" /\ val.t = "arr"
        THEN JArr([j \in 1..Len(val.a) |-> Column(col, val.a[j])])
    ELSE val

SortMembers(col, kvs) ==
    IF Len(kvs) = 0 THEN <<>>
    ELSE LET least == CHOOSE j \in 1..Len(kvs) :
                         \A k \in 1..Len(kvs) : k = j \/ ~NameBefore(kvs[k][1], kvs[j][1])
             rest == [k \in 1..(Len(kvs) - 1) |-> IF k < least THEN kvs[k] ELSE kvs[k + 1]]
         IN  << <<kvs[least][1], Column(col, kvs[least][2])>> >> \o SortMembers(col, rest)

\* ToSql::to_sql: the envelope as a JSON value, written as the text of the
\* column
to_sql(em, col) == to_vec(Column(col, to_value(em)))

\* FromSql::from_sql: the text of the column as a JSON value, the value as
\* an envelope of the type that is read
from_sql(P, S, raw) ==
    LET json == from_slice("Value", raw)
    IN  IF json.ok THEN from_value(P, S, json.val)
        ELSE [ok |-> FALSE, em |-> Bound(NoMsg, P, S)]

\* A faulty variant: the key configuration is read before the payload is
\* serialized.
encrypt_with_key_config_KeysFirst(S, payload, keys, r) ==
    LET pk == primary_key(keys)
    IN  IF ~pk.ok THEN [kind |-> "Panic", msg |-> NoMsg]
        ELSE IF ~payload.serializable THEN [kind |-> "Serialization", msg |-> NoMsg]
        ELSE LET bytes == to_vec(payload.val)
                 nonce == generate_nonce_for(S, bytes, pk.key, r)
                 sealed == encrypt_in_place_detached(new_from_slice(pk.key), nonce, bytes)
             IN  [kind |-> "Ok",
                  msg |-> [p |-> encode(sealed.buffer),
                           h |-> [iv |-> encode(nonce),
                                 at |-> encode(sealed.tag)]]]

\* EncryptedMessage::encrypt_with_key_config; r is what the CSPRNG returns
\* if the strategy asks it
encrypt_with_key_config(S, payload, keys, r) ==
    IF ~payload.serializable THEN [kind |-> "Serialization", msg |-> NoMsg]
    ELSE LET bytes == to_vec(payload.val)
             pk == primary_key(keys)
         IN  IF ~pk.ok THEN [kind |-> "Panic", msg |-> NoMsg]
             ELSE LET nonce == generate_nonce_for(S, bytes, pk.key, r)
                      sealed == encrypt_in_place_detached(new_from_slice(pk.key), nonce, bytes)
                  IN  [kind |-> "Ok",
                       msg |-> [p |-> encode(sealed.buffer),
                                h |-> [iv |-> encode(nonce),
                                      at |-> encode(sealed.tag)]]]

\* EncryptedMessage::with_new_payload_and_key_config on the envelope e of
\* strategy S: a new envelope for the payload, made as encrypt makes it with
\* the strategy and key configuration e is bound to; e is consumed.
with_new_payload_and_key_config(e, S, payload, keys, r) ==
    encrypt_with_key_config(S, payload, keys, r)

\* A faulty variant: only the primary key is tried.
TryKeys_OnlyFirst(keys, i, payload, nonce, tag, P, tried) ==
    IF Len(keys) = 0 THEN [kind |-> "Decryption", val |-> JNull, tried |-> tried]
    ELSE IF Len(nonce) # NonceLen \/ Len(tag) # TagLen
        THEN [kind |-> "Panic", val |-> JNull, tried |-> tried]
    ELSE LET opened == decrypt_in_place_detached(new_from_slice(keys[1]), nonce, payload, tag)
             parsed == from_slice(P, opened.buffer)
         IN  IF ~opened.ok THEN [kind |-> "Decryption", val |-> JNull, tried |-> <<1>>]
             ELSE IF parsed.ok THEN [kind |-> "Ok", val |-> parsed.val, tried |-> <<1>>]
             ELSE [kind |-> "Deserialization", val |-> JNull, tried |-> <<1>>]

\* A faulty variant: the loop stops one key short.
RECURSIVE TryKeys_OneShort(_, _, _, _, _, _, _)
TryKeys_OneShort(keys, i, payload, nonce, tag, P, tried) ==
    IF i >= Len(keys) THEN [kind |-> "Decryption", val |-> JNull, tried |-> tried]
    ELSE IF Len(nonce) # NonceLen \/ Len(tag) # TagLen
        THEN [kind |-> "Panic", val |-> JNull, tried |-> tried]
    ELSE LET opened == decrypt_in_place_detached(new_from_slice(keys[i]), nonce, payload, tag)
             parsed == from_slice(P, opened.buffer)
         IN  IF ~opened.ok
             THEN TryKeys_OneShort(keys, i + 1, payload, nonce, tag, P, Append(tried, i))
             ELSE IF parsed.ok
                 THEN [kind |-> "Ok", val |-> parsed.val, tried |-> Append(tried, i)]
             ELSE [kind |-> "Deserialization", val |-> JNull, tried |-> Append(tried, i)]

\* A faulty variant: the result of the tag check is not looked at.
TryKeys_IgnoresTag(keys, i, payload, nonce, tag, P, tried) ==
    IF i > Len(keys) THEN [kind |-> "Decryption", val |-> JNull, tried |-> tried]
    ELSE IF Len(nonce) # NonceLen \/ Len(tag) # TagLen
        THEN [kind |-> "Panic", val |-> JNull, tried |-> tried]
    ELSE LET parsed == from_slice(P, ApplyKeystream(new_from_slice(keys[i]), nonce, payload, -1))
         IN  IF parsed.ok
             THEN [kind |-> "Ok", val |-> parsed.val, tried |-> Append(tried, i)]
             ELSE [kind |-> "Deserialization", val |-> JNull, tried |-> Append(tried, i)]

\* A faulty variant: the error says how many keys were tried.
RECURSIVE TryKeys_CountsKeys(_, _, _, _, _, _, _)
TryKeys_CountsKeys(keys, i, payload, nonce, tag, P, tried) ==
    IF i > Len(keys) THEN [kind |-> "Decryption", val |-> JNum(Len(tried)), tried |-> tried]
    ELSE IF Len(nonce) # NonceLen \/ Len(tag) # TagLen
        THEN [kind |-> "Panic", val |-> JNull, tried |-> tried]
    ELSE LET opened == decrypt_in_place_detached(new_from_slice(keys[i]), nonce, payload, tag)
             parsed == from_slice(P, opened.buffer)
         IN  IF ~opened.ok
             THEN TryKeys_CountsKeys(keys, i + 1, payload, nonce, tag, P, Append(tried, i))
             ELSE IF parsed.ok
                 THEN [kind |-> "Ok", val |-> parsed.val, tried |-> Append(tried, i)]
             ELSE [kind |-> "Deserialization", val |-> JNull, tried |-> Append(tried, i)]

\* A faulty variant: a payload of the wrong shape is taken for a wrong key.
RECURSIVE TryKeys_SkipsBadShape(_, _, _, _, _, _, _)
TryKeys_SkipsBadShape(keys, i, payload, nonce, tag, P, tried) ==
    IF i > Len(keys) THEN [kind |-> "Decryption", val |-> JNull, tried |-> tried]
    ELSE IF Len(nonce) # NonceLen \/ Len(tag) # TagLen
        THEN [kind |-> "Panic", val |-> JNull, tried |-> tried]
    ELSE LET opened == decrypt_in_place_detached(new_from_slice(keys[i]), nonce, payload, tag)
             parsed == from_slice(P, opened.buffer)
         IN  IF ~opened.ok \/ ~parsed.ok
             THEN TryKeys_SkipsBadShape(keys, i + 1, payload, nonce, tag, P, Append(tried, i))
             ELSE [kind |-> "Ok", val |-> parsed.val, tried |-> Append(tried, i)]

\* the loop over key_config.keys(), from key number i on; tried lists the
\* numbers of the keys the cipher was run with so far
RECURSIVE TryKeys(_, _, _, _, _, _, _)
TryKeys(keys, i, payload, nonce, tag, P, tried) ==
    IF i > Len(keys) THEN [kind |-> "Decryption", val |-> JNull, tried |-> tried]
    ELSE IF Len(nonce) # NonceLen \/ Len(tag) # TagLen
        THEN [kind |-> "Panic", val |-> JNull, tried |-> tried]
    ELSE LET opened == decrypt_in_place_detached(new_from_slice(keys[i]), nonce, payload, tag)
         IN  IF ~opened.ok
             THEN TryKeys(keys, i + 1, payload, nonce, tag, P, Append(tried, i))
             ELSE LET parsed == from_slice(P, opened.buffer)
                  IN  IF parsed.ok
                      THEN [kind |-> "Ok", val |-> parsed.val, tried |-> Append(tried, i)]
                      ELSE [kind |-> "Deserialization", val |-> JNull,
                            tried |-> Append(tried, i)]

\* EncryptedMessage::decrypt_with_key_config for the payload type P
decrypt_with_key_config(msg, P, keys) ==
    LET payload == decode(msg.p)
        nonce == decode(msg.h.iv)
        tag == decode(msg.h.at)
    IN  IF ~payload.ok \/ ~nonce.ok \/ ~tag.ok
        THEN [kind |-> "Base64Decoding", val |-> JNull, tried |-> <<>>]
        ELSE TryKeys(keys, 1, payload.bytes, nonce.bytes, tag.bytes, P, <<>>)

\* K::default() for a key-configuration type K, which the model names by
\* the key list its default value returns
Default(K) == K.default

\* A faulty variant: the shorthand drops the strategy of the envelope type.
encrypt_AnyStrategy(S, payload, K, r) ==
    encrypt_with_key_config("Deterministic", payload, Default(K), r)

\* EncryptedMessage::encrypt
encrypt(S, payload, K, r) == encrypt_with_key_config(S, payload, Default(K), r)

\* EncryptedMessage::decrypt
decrypt(msg, P, K) == decrypt_with_key_config(msg, P, Default(K))

(***************************************************************************)
(* The two operations statement by statement, on the frame of the thread   *)
(* that runs them: pc is the statement the thread is at, the other fields  *)
(* are the locals of the function.  attempts lists the AEAD attempts the   *)
(* call has made: the index of the key and the buffer handed to the cipher.*)
(***************************************************************************)
NoOut == [kind |-> "none", val |-> JNull, msg |-> NoMsg]

Idle ==
    [pc |-> "idle", call |-> [op |-> "none"], payload |-> <<>>, nonce |-> <<>>,
     tag |-> <<>>, key |-> <<>>, keys |-> <<>>, read |-> FALSE, i |-> 0,
     buffer |-> <<>>, attempts |-> <<>>, drawn |-> 0, out |-> NoOut]

\* the frame of a thread that enters call
Enter(call) ==
    [Idle EXCEPT !.call = call,
                 !.pc = IF call.op = "encrypt" THEN "to_vec" ELSE "decode_p"]

\* the frame of a thread that returns
Return(l, kind, val, msg) ==
    [l EXCEPT !.pc = "done", !.out = [kind |-> kind, val |-> val, msg |-> msg]]

\* the next statement of encrypt_with_key_config; r is what the CSPRNG of
\* the thread returns if the statement asks it
encrypt_step(l, r) ==
    CASE l.pc = "to_vec" ->
            IF ~l.call.payload.serializable THEN Return(l, "Serialization", JNull, NoMsg)
            ELSE [l EXCEPT !.payload = to_vec(l.call.payload.val), !.pc = "primary_key"]
      [] l.pc = "primary_key" ->
            LET pk == primary_key(l.call.keys)
            IN  IF ~pk.ok THEN Return(l, "Panic", JNull, NoMsg)
                ELSE [l EXCEPT !.key = pk.key, !.pc = "nonce"]
      [] l.pc = "nonce" ->
            [l EXCEPT !.nonce = generate_nonce_for(l.call.strategy, l.payload, l.key, r),
                      !.drawn = IF l.call.strategy = "Randomized" THEN r ELSE 0,
                      !.pc = "seal"]
      [] l.pc = "seal" ->
            LET sealed == encrypt_in_place_detached(new_from_slice(l.key), l.nonce, l.payload)
            IN  [l EXCEPT !.buffer = sealed.buffer, !.tag = sealed.tag, !.pc = "wrap"]
      [] l.pc = "wrap" ->
            Return(l, "Ok", JNull,
                   [p |-> encode(l.buffer),
                    h |-> [iv |-> encode(l.nonce), at |-> encode(l.tag)]])

\* A faulty variant: the copy loses the last byte.
clone_Truncates(bytes) == SubSeq(bytes, 1, Len(bytes) - 1)

\* payload.clone(): the buffer of a key attempt
clone(bytes) == bytes

\* A faulty variant: the iteration skips a key.
Advance_Skips(i) == i + 2

\* the iterator of the key list moves on to the next key
Advance(i) == i + 1

\* A faulty variant: the tag is decoded first.
DecodeOrder_TagFirst == <<"at", "iv", "p">>

\* the envelope fields in the order decrypt decodes them
DecodeOrder == <<"p", "iv", "at">>

\* the statement that decodes the n-th field of DecodeOrder
DecodeAt(n) == "decode_" \o DecodeOrder[n]

\* the next statement of decrypt_with_key_config for the payload type
\* l.call.P
decrypt_step(l) ==
    IF l.pc \in {DecodeAt(n) : n \in 1..3}
    THEN LET n == CHOOSE m \in 1..3 : l.pc = DecodeAt(m)
             f == DecodeOrder[n]
             d == decode(IF f = "p" THEN l.call.msg.p ELSE l.call.msg.h[f])
             got == CASE f = "p" -> [l EXCEPT !.payload = d.bytes]
                      [] f = "iv" -> [l EXCEPT !.nonce = d.bytes]
                      [] f = "at" -> [l EXCEPT !.tag = d.bytes]
         IN  IF ~d.ok THEN Return(l, "Base64Decoding", JNull, NoMsg)
             ELSE [got EXCEPT !.pc = IF n < 3 THEN DecodeAt(n + 1) ELSE "keys"]
    ELSE IF l.pc = "keys"
    THEN [l EXCEPT !.keys = l.call.keys, !.read = TRUE, !.i = 1, !.pc = "try"]
    ELSE IF l.i > Len(l.keys) THEN Return(l, "Decryption", JNull, NoMsg)
    ELSE IF Len(l.nonce) # NonceLen \/ Len(l.tag) # TagLen
        THEN Return(l, "Panic", JNull, NoMsg)
    ELSE LET buffer == clone(l.payload)
             opened == decrypt_in_place_detached(new_from_slice(l.keys[l.i]), l.nonce,
                                                 buffer, l.tag)
             tried == [l EXCEPT !.buffer = opened.buffer,
                                !.attempts = Append(@, [key |-> l.i, buffer |-> buffer])]
         IN  IF ~opened.ok THEN [tried EXCEPT !.i = Advance(l.i)]
             ELSE LET parsed == from_slice(l.call.P, opened.buffer)
                  IN  IF parsed.ok THEN Return(tried, "Ok", parsed.val, NoMsg)
                      ELSE Return(tried, "Deserialization", JNull, NoMsg)

(***************************************************************************)
(* The inputs of the model.                                                *)
(***************************************************************************)
Pl(P, val) == [P |-> P, val |-> val, serializable |-> Serializable(val)]

Hi == <<104, 105>>

Payloads ==
    { Pl("String", JStr(<<>>)),
      Pl("String", JStr(Hi)),
      Pl("OptString", JNull),
      Pl("Bool", JBool(TRUE)),
      Pl("U8", JNum(7)),
      Pl("VecU8", JArr(<<JNum(1), JNum(2)>>)),
      Pl("MapBytesString", JMap(<< <<JArr(<<JNum(1), JNum(2)>>), JStr(Hi)>> >>)),
      Pl("Value", JObj(<< <<<<97>>, JObj(<< <<<<98>>, JArr(<<JNum(1)>>)>> >>)>> >>)) }

PayloadTypes == {"String", "OptString", "Bool", "U8", "VecU8", "Value"}

Fields == {"p", "iv", "at"}

\* texts that are not base64: "invalid" (length not a multiple of four) and
\* "!!!!" (characters outside the alphabet)
BadTexts == { <<105, 110, 118, 97, 108, 105, 100>>, <<33, 33, 33, 33>> }

\* byte strings an envelope field is replaced by
OtherBytes == { <<>>, [i \in 1..NonceLen |-> 0] }

Intact == [kind |-> "intact", field |-> "p", pos |-> 0, delta |-> 0, data |-> <<>>]
Flip(f, pos, d) == [kind |-> "flip", field |-> f, pos |-> pos, delta |-> d, data |-> <<>>]
Text(f, txt) == [kind |-> "text", field |-> f, pos |-> 0, delta |-> 0, data |-> txt]
Bytes(f, b) == [kind |-> "bytes", field |-> f, pos |-> 0, delta |-> 0, data |-> b]

\* what may happen to a stored envelope before it is decrypted
Changes ==
    {Intact}
    \cup {Flip(f, 1, 1) : f \in Fields}
    \cup {Flip(f, -1, 128) : f \in Fields}
    \cup {Text(f, txt) : f \in Fields, txt \in BadTexts}
    \cup {Bytes(f, b) : f \in Fields, b \in OtherBytes}

\* the bytes with the byte at pos (counted from the end when negative) changed
FlipByte(bytes, pos, d) ==
    LET at == IF pos > 0 THEN pos ELSE Len(bytes) + 1 + pos
    IN  [i \in 1..Len(bytes) |-> IF i = at THEN (bytes[i] + d) % 256 ELSE bytes[i]]

NewField(old, c) ==
    CASE c.kind = "flip" -> encode(FlipByte(decode(old).bytes, c.pos, c.delta))
      [] c.kind = "text" -> c.data
      [] c.kind = "bytes" -> encode(c.data)

Field(msg, f) == IF f = "p" THEN msg.p ELSE msg.h[f]

Apply(msg, c) ==
    LET new(f) == IF c.kind # "intact" /\ f = c.field THEN NewField(Field(msg, f), c)
                  ELSE Field(msg, f)
    IN  [p |-> new("p"), h |-> [iv |-> new("iv"), at |-> new("at")]]

\* a key as the operator stores it: the string, the bytes it was written
\* from and whether it was written as the decoder reads it
Stored(text, bytes, sound) == [text |-> text, bytes |-> bytes, sound |-> sound]

HexDigit(v, upper) == IF v < 10 THEN 48 + v ELSE IF upper THEN 55 + v ELSE 87 + v

\* the bytes in hexadecimal, in lower or upper case
HexOf(bytes, upper) ==
    [j \in 1..(2 * Len(bytes)) |->
        LET b == bytes[(j + 1) \div 2]
        IN  HexDigit(IF j % 2 = 1 THEN b \div 16 ELSE b % 16, upper)]

\* the strings a decoder is given: keys, and what is not a key (too short,
\* too long, empty, not in the alphabet)
KeyTexts(decoder) ==
    IF decoder = "Base64"
    THEN {Stored(encode(k), k, TRUE) : k \in Keys}
         \cup {Stored(encode(b), b, FALSE) :
                  b \in {SubSeq(KeyA, 1, KeyLen - 1), KeyA \o <<0>>, <<>>}}
         \cup {Stored(txt, <<>>, FALSE) : txt \in BadTexts}
    ELSE {Stored(HexOf(k, FALSE), k, TRUE) : k \in Keys}
         \cup {Stored(HexOf(KeyA, TRUE), KeyA, TRUE)}
         \cup {Stored(HexOf(b, FALSE), b, FALSE) :
                  b \in {SubSeq(KeyA, 1, KeyLen - 1), KeyA \o <<0>>, <<>>}}
         \cup {Stored(Tail(HexOf(KeyA, FALSE)), <<>>, FALSE),
               Stored(<<103>> \o Tail(HexOf(KeyA, FALSE)), <<>>, FALSE)}

Decoders == {"Base64", "Hex"}

\* the SQL types the adapter is implemented for
SqlTypes == {"Json", "Jsonb"}

\* the key-configuration types that have a default value
DefaultTypes == {[default |-> keys] : keys \in KeyConfigs}

\* the calls a thread makes
EncryptOf(S, payload, keys) ==
    [op |-> "encrypt", strategy |-> S, payload |-> payload, keys |-> keys]

DecryptOf(msg, P, keys) == [op |-> "decrypt", msg |-> msg, P |-> P, keys |-> keys]

\* an envelope the threads share
ThreadEnvelope ==
    encrypt_with_key_config("Deterministic", Pl("String", JStr(Hi)), <<KeyA>>, 1).msg

\* the calls of threads that run side by side: on the same and on different
\* key configurations, on the same envelope
ThreadCalls ==
    { EncryptOf("Deterministic", Pl("String", JStr(Hi)), <<KeyA>>),
      EncryptOf("Randomized", Pl("String", JStr(Hi)), <<KeyB, KeyA>>),
      DecryptOf(ThreadEnvelope, "String", <<KeyB, KeyA>>),
      DecryptOf(ThreadEnvelope, "String", <<KeyB>>) }

\* the envelopes a call followed statement by statement reads: the shared
\* one as storage may have changed it, in one field or in two
StepEnvelopes ==
    {Apply(ThreadEnvelope, c) : c \in Changes}
    \cup {Apply(Apply(ThreadEnvelope, Text(f, <<33, 33, 33, 33>>)), Text(g, <<33, 33, 33, 33>>)) :
             f \in Fields, g \in Fields}

\* the calls followed statement by statement
StepCalls ==
    {EncryptOf(S, payload, keys) :
        S \in Strategies, payload \in {pl \in Payloads : pl.P \in {"String", "MapBytesString"}},
        keys \in KeyConfigs}
    \cup {DecryptOf(msg, P, keys) :
             msg \in StepEnvelopes, P \in {"String", "U8"}, keys \in KeyConfigs}

(***************************************************************************)
(* The state: two recorded calls.  The engine keeps no state between calls *)
(* (lib.rs has no static or global), so a call is decided by its inputs    *)
(* and, for Randomized, by what the CSPRNG returns to it.  Any number of   *)
(* unrecorded calls may lie before and between the recorded ones: all they *)
(* change is which outputs of the CSPRNG are still to come.                *)
(***************************************************************************)
VARIABLES
    first,    \* the first recorded call, an encrypt
    last,     \* a later recorded call, an encrypt or a decrypt
    current,  \* the key list the key configuration of the store returns
    store,    \* the envelope each column of the stored row holds
    locals    \* the frame of the call each thread is in

vars == <<first, last, current, store, locals>>

Threads == 1..NumThreads

Range(q) == {q[i] : i \in 1..Len(q)}

\* the columns of the stored row and the strategy each is bound to
Slots == {"json", "jsonb"}

SlotStrategy(slot) == IF slot = "json" THEN "Randomized" ELSE "Deterministic"

\* a column that holds no envelope
Empty == [held |-> FALSE]

\* a column that holds the envelope msg of payload; under is the primary key
\* at the time it was written, prior the primary key at the time the envelope
\* it replaces was written (<<>> if it replaces none)
Held(payload, msg, under, prior) ==
    [held |-> TRUE, payload |-> payload, msg |-> msg, under |-> under, prior |-> prior]

\* the values the application stores: strings
StorePayloads == {pl \in Payloads : pl.P = "String"}

NoCall == [op |-> "none"]

\* the payload types a stored envelope is read back as: its own, and one
\* it was not written as
ReadTypes(P) == {P, IF P = "U8" THEN "String" ELSE "U8"}

\* the record of encrypt_with_key_config(payload, keys) under strategy S;
\* r is what the CSPRNG returns if it is asked
EncryptCall(S, payload, keys, r) ==
    [op |-> "encrypt", strategy |-> S, payload |-> payload, keys |-> keys,
     drawn |-> IF S = "Randomized" THEN r ELSE 0,
     out |-> encrypt_with_key_config(S, payload, keys, r)]

\* the record of decrypt_with_key_config(keys) on the envelope msg read as P
DecryptCall(c, msg, P, keys) ==
    [op |-> "decrypt", change |-> c, msg |-> msg, P |-> P, keys |-> keys,
     out |-> decrypt_with_key_config(msg, P, keys)]

Init ==
    /\ first = NoCall
    /\ last = NoCall
    /\ current = <<KeyA>>
    /\ store = [slot \in Slots |-> Empty]
    /\ locals = [t \in Threads |-> Idle]

\* what the CSPRNG has returned to the recorded calls
\* the outputs of the CSPRNG the first call has consumed
Drawn == {first.drawn}

\* The first call: encrypt_with_key_config.  When the strategy asks the
\* CSPRNG it gets r, one of its outputs (other calls of the thread may have
\* consumed the outputs before r).
Encrypt ==
    /\ first = NoCall
    /\ \E S \in Strategies, payload \in Payloads, keys \in KeyConfigs, r \in RandomDraws :
          first' = EncryptCall(S, payload, keys, r)
    /\ UNCHANGED <<last, current, store, locals>>

\* A second call of encrypt_with_key_config.  The CSPRNG does not return
\* again what it returned to the first call.
EncryptAgain ==
    /\ first.op = "encrypt"
    /\ last = NoCall
    /\ \E S \in Strategies, payload \in Payloads, keys \in KeyConfigs, r \in RandomDraws :
          /\ S = "Randomized" => r \notin Drawn
          /\ last' = EncryptCall(S, payload, keys, r)
    /\ UNCHANGED <<first, current, store, locals>>

\* A call of decrypt_with_key_config on the envelope of the first call,
\* as it is or as storage changed it, read as the type P.
Decrypt ==
    /\ first.op = "encrypt"
    /\ last = NoCall
    /\ first.out.kind = "Ok"
    /\ \E c \in Changes, keys \in KeyConfigs :
          \E P \in (IF c.kind = "intact" THEN ReadTypes(first.payload.P)
                    ELSE {first.payload.P}) :
             last' = DecryptCall(c, Apply(first.out.msg, c), P, keys)
    /\ UNCHANGED <<first, current, store, locals>>

\* the record of e.with_new_payload_and_key_config(payload, keys) on the
\* envelope e of strategy S
WithNewPayloadCall(e, S, payload, keys, r) ==
    [op |-> "with_new_payload", e |-> e, strategy |-> S, payload |-> payload,
     keys |-> keys, drawn |-> IF S = "Randomized" THEN r ELSE 0,
     out |-> with_new_payload_and_key_config(e, S, payload, keys, r)]

\* A call of with_new_payload_and_key_config on the envelope of the first
\* call, with a payload of the type the envelope is bound to.
WithNewPayload ==
    /\ first.op = "encrypt"
    /\ last = NoCall
    /\ first.out.kind = "Ok"
    /\ \E payload \in Payloads, keys \in KeyConfigs, r \in RandomDraws :
          /\ payload.P = first.payload.P
          /\ first.strategy = "Randomized" => r \notin Drawn
          /\ last' = WithNewPayloadCall(first.out.msg, first.strategy, payload, keys, r)
    /\ UNCHANGED <<first, current, store, locals>>

\* the record of serializing the envelope em to JSON text and deserializing
\* the text as the type of em
ToJsonCall(em) ==
    LET json == to_vec(to_value(em))
        read == from_slice("Value", json)
    IN  [op |-> "to_json", em |-> em, json |-> json,
         back |-> IF read.ok THEN from_value(em.payload_type, em.strategy, read.val)
                  ELSE [ok |-> FALSE, em |-> Bound(NoMsg, em.payload_type, em.strategy)]]

\* The envelope of the first call is written as JSON and read back.
ToJson ==
    /\ first.op = "encrypt"
    /\ last = NoCall
    /\ first.out.kind = "Ok"
    /\ last' = ToJsonCall(Bound(first.out.msg, first.payload.P, first.strategy))
    /\ UNCHANGED <<first, current, store, locals>>

\* the record of derive_key(raw) on the key configuration cfg
DeriveKeyCall(cfg, raw) ==
    [op |-> "derive_key", cfg |-> cfg, raw |-> raw, out |-> derive_key(cfg, raw)]

\* the record of key() on the key configuration cfg
KeyCall(cfg) == [op |-> "key", cfg |-> cfg, out |-> KeyConfig_key(cfg)]

\* A call of KeyConfig::derive_key.
DeriveKey ==
    /\ first = NoCall
    /\ \E cfg \in RawKeyConfigs, raw \in RawKeys : first' = DeriveKeyCall(cfg, raw)
    /\ UNCHANGED <<last, current, store, locals>>

\* A call of KeyConfig::key.
Key ==
    /\ first = NoCall
    /\ \E cfg \in RawKeyConfigs : first' = KeyCall(cfg)
    /\ UNCHANGED <<last, current, store, locals>>

\* The operator rotates: a key that is not in the list becomes the primary
\* key and the keys of the list stay behind it.
Prepend ==
    /\ Len(current) < MaxKeys
    /\ \E k \in Keys \ Range(current) : current' = <<k>> \o current
    /\ UNCHANGED <<first, last, store, locals>>

\* The application writes a value to a column that holds none: encrypt under
\* the current key list.  r is what the CSPRNG returns if it is asked.
EncryptNew ==
    /\ \E slot \in Slots, payload \in StorePayloads, r \in RandomDraws :
          LET out == encrypt_with_key_config(SlotStrategy(slot), payload, current, r)
          IN  /\ ~store[slot].held
              /\ out.kind = "Ok"
              /\ store' = [store EXCEPT ![slot] = Held(payload, out.msg, current[1], <<>>)]
    /\ UNCHANGED <<first, last, current, locals>>

\* The application replaces the value of a column: with_new_payload on the
\* envelope the column holds, under the current key list.
ReEncrypt ==
    /\ \E slot \in Slots, payload \in StorePayloads, r \in RandomDraws :
          /\ store[slot].held
          /\ LET out == with_new_payload_and_key_config(store[slot].msg, SlotStrategy(slot),
                                                        payload, current, r)
             IN  /\ out.kind = "Ok"
                 /\ store' = [store EXCEPT ![slot] =
                                 Held(payload, out.msg, current[1], store[slot].under)]
    /\ UNCHANGED <<first, last, current, locals>>

\* The operator retires a key that is not the primary key, once no column
\* holds an envelope written while it was the primary key.
RemoveOld ==
    /\ \E i \in 2..Len(current) :
          /\ \A slot \in Slots : store[slot].held => store[slot].under # current[i]
          /\ current' = SubSeq(current, 1, i - 1) \o SubSeq(current, i + 1, Len(current))
    /\ UNCHANGED <<first, last, store, locals>>

\* the record of encrypt(payload) for the envelope type of strategy S and
\* key configuration K
EncryptDefaultCall(S, payload, K, r) ==
    [op |-> "encrypt_default", strategy |-> S, payload |-> payload, K |-> K,
     drawn |-> IF S = "Randomized" THEN r ELSE 0,
     out |-> encrypt(S, payload, K, r)]

\* the record of decrypt() on the envelope msg of key configuration K
DecryptDefaultCall(c, msg, P, K) ==
    [op |-> "decrypt_default", change |-> c, msg |-> msg, P |-> P, K |-> K,
     out |-> decrypt(msg, P, K)]

\* The first call: the shorthand encrypt.
EncryptDefault ==
    /\ first = NoCall
    /\ \E S \in Strategies, payload \in Payloads, K \in DefaultTypes, r \in RandomDraws :
          first' = EncryptDefaultCall(S, payload, K, r)
    /\ UNCHANGED <<last, current, store, locals>>

\* The shorthand decrypt on the envelope of the first call, as it is or as
\* storage changed it; the envelope keeps its key-configuration type.
DecryptDefault ==
    /\ first.op = "encrypt_default"
    /\ last = NoCall
    /\ first.out.kind = "Ok"
    /\ \E c \in Changes :
          \E P \in (IF c.kind = "intact" THEN ReadTypes(first.payload.P)
                    ELSE {first.payload.P}) :
             last' = DecryptDefaultCall(c, Apply(first.out.msg, c), P, first.K)
    /\ UNCHANGED <<first, current, store, locals>>

\* the record of writing the envelope em to a column of type col and reading
\* the column back
SqlCall(em, col) ==
    LET raw == to_sql(em, col)
    IN  [op |-> "sql", col |-> col, em |-> em, raw |-> raw,
         back |-> from_sql(em.payload_type, em.strategy, raw)]

\* The envelope of the first call is written to a column and read back.
WriteRead ==
    /\ first.op = "encrypt"
    /\ last = NoCall
    /\ first.out.kind = "Ok"
    /\ \E col \in SqlTypes :
          last' = SqlCall(Bound(first.out.msg, first.payload.P, first.strategy), col)
    /\ UNCHANGED <<first, current, store, locals>>

\* the record of decode_keys of the decoder on the strings of the list
DecodeKeysCall(decoder, list) ==
    [op |-> "decode_keys", decoder |-> decoder, list |-> list,
     out |-> decode_keys(decoder, [i \in 1..Len(list) |-> list[i].text])]

\* A call of decode_keys of one of the two decoders.
DecodeKeys ==
    /\ first = NoCall
    /\ \E decoder \in Decoders :
          \E list \in SeqsUpTo(KeyTexts(decoder), MaxKeys) :
             first' = DecodeKeysCall(decoder, list)
    /\ UNCHANGED <<last, current, store, locals>>

\* A faulty variant: the buffer is a static all threads share.
Mine_Shared(ls, t) == [ls[t] EXCEPT !.buffer = ls[1].buffer]

\* the frame of thread t: the locals of a call are on the stack of the
\* thread that makes it
Mine(ls, t) == ls[t]

Running(l) == l.pc \notin {"idle", "done"}

\* A thread enters encrypt or decrypt while other threads are in calls of
\* their own.
Call ==
    /\ \E t \in Threads, call \in ThreadCalls :
          /\ locals[t].pc = "idle"
          /\ locals' = [locals EXCEPT ![t] = Enter(call)]
    /\ UNCHANGED <<first, last, current, store>>

\* A thread enters encrypt or decrypt while no other thread is in a call.
CallAlone ==
    /\ \A u \in Threads : locals[u].pc = "idle"
    /\ \E t \in Threads, call \in StepCalls : locals' = [locals EXCEPT ![t] = Enter(call)]
    /\ UNCHANGED <<first, last, current, store>>

\* A thread in encrypt runs its next statement.
StepEncrypt ==
    /\ \E t \in Threads, r \in RandomDraws :
          /\ Running(locals[t])
          /\ locals[t].call.op = "encrypt"
          /\ locals' = [locals EXCEPT ![t] = encrypt_step(Mine(locals, t), r)]
    /\ UNCHANGED <<first, last, current, store>>

\* A thread in decrypt runs its next statement.
StepDecrypt ==
    /\ \E t \in Threads :
          /\ Running(locals[t])
          /\ locals[t].call.op = "decrypt"
          /\ locals' = [locals EXCEPT ![t] = decrypt_step(Mine(locals, t))]
    /\ UNCHANGED <<first, last, current, store>>

Next ==
    \/ Call \/ CallAlone \/ StepEncrypt \/ StepDecrypt
    \/ EncryptDefault \/ DecryptDefault \/ WriteRead \/ DecodeKeys
    \/ Encrypt \/ EncryptAgain \/ Decrypt \/ WithNewPayload \/ ToJson \/ DeriveKey \/ Key
    \/ Prepend \/ EncryptNew \/ ReEncrypt \/ RemoveOld

Spec == Init /\ [][Next]_vars

\* an encryption followed by another encryption
NextTwice == Encrypt \/ EncryptAgain

SpecTwice == Init /\ [][NextTwice]_vars

\* an encryption followed by a decryption of its envelope
NextRead == Encrypt \/ Decrypt

SpecRead == Init /\ [][NextRead]_vars

\* an encryption followed by with_new_payload on its envelope
NextRenew == Encrypt \/ WithNewPayload

SpecRenew == Init /\ [][NextRenew]_vars

\* an encryption followed by a round trip of its envelope through JSON
NextWire == Encrypt \/ ToJson

SpecWire == Init /\ [][NextWire]_vars

\* the shorthands of a key-configuration type with a default value
NextDefault == EncryptDefault \/ DecryptDefault

SpecDefault == Init /\ [][NextDefault]_vars

\* an encryption followed by a round trip of its envelope through a column
NextSql == Encrypt \/ WriteRead

SpecSql == Init /\ [][NextSql]_vars

\* calls of the key decoders
NextDecoders == DecodeKeys

SpecDecoders == Init /\ [][NextDecoders]_vars

\* threads in calls side by side
NextThreads == Call \/ StepEncrypt \/ StepDecrypt

SpecThreads == Init /\ [][NextThreads]_vars

\* one call followed statement by statement
NextSteps == CallAlone \/ StepEncrypt \/ StepDecrypt

SpecSteps == Init /\ [][NextSteps]_vars

\* a key rotation over the store
NextRotate == Prepend \/ EncryptNew \/ ReEncrypt \/ RemoveOld

SpecRotate == Init /\ [][NextRotate]_vars

\* calls on a key configuration
NextKeys == DeriveKey \/ Key

SpecKeys == Init /\ [][NextKeys]_vars

(***************************************************************************)
(* Properties.                                                             *)
(***************************************************************************)
EncOk(c) == c.op = "encrypt" /\ c.out.kind = "Ok"

\* two encryptions are recorded
TwoEncrypts == EncOk(first) /\ EncOk(last)

\* an encryption and a decryption of its envelope are recorded
Decrypted == EncOk(first) /\ last.op = "decrypt"

BothUse(S) == first.strategy = S /\ last.strategy = S

AllTried(keys) == [i \in 1..Len(keys) |-> i]

\* C1: an envelope decrypted, as it was returned, under the key configuration
\* it was encrypted under and read as the type it was written as gives back
\* Ok with the payload that was encrypted.
RoundTrip ==
    (/\ Decrypted
     /\ last.change.kind = "intact"
     /\ last.keys = first.keys
     /\ last.P = first.payload.P)
    => (last.out.kind = "Ok" /\ last.out.val = first.payload.val)

RoundTripWitness ==
    /\ Decrypted
    /\ last.change.kind = "intact"
    /\ last.keys = first.keys
    /\ Len(first.keys) = 2
    /\ last.P = first.payload.P
    /\ first.strategy = "Randomized"
    /\ first.payload.val.t = "obj"
    /\ last.out.kind = "Ok"

\* C2: two Deterministic encryptions of the same payload under the same key
\* configuration return envelopes with the same ciphertext, nonce and tag.
Determinism ==
    (/\ TwoEncrypts
     /\ BothUse("Deterministic")
     /\ first.payload = last.payload
     /\ first.keys = last.keys)
    => (/\ first.out.msg.p = last.out.msg.p
        /\ first.out.msg.h.iv = last.out.msg.h.iv
        /\ first.out.msg.h.at = last.out.msg.h.at)

DeterminismWitness ==
    /\ TwoEncrypts
    /\ BothUse("Deterministic")
    /\ first.payload = last.payload
    /\ first.keys = last.keys
    /\ Len(first.keys) = 2
    /\ first.out.msg = last.out.msg

\* C3: two Deterministic encryptions under the same primary key have the
\* same nonce exactly when their serialized payloads are equal, and the same
\* envelope exactly when their serialized payloads are equal.
SameBytes == to_vec(first.payload.val) = to_vec(last.payload.val)

NonceIffPayload ==
    (/\ TwoEncrypts
     /\ BothUse("Deterministic")
     /\ first.keys[1] = last.keys[1])
    => (/\ (first.out.msg.h.iv = last.out.msg.h.iv) <=> SameBytes
        /\ (first.out.msg = last.out.msg) <=> SameBytes)

NonceIffPayloadWitness ==
    /\ TwoEncrypts
    /\ BothUse("Deterministic")
    /\ first.keys[1] = last.keys[1]
    /\ first.keys # last.keys
    /\ ~SameBytes
    /\ first.out.msg.h.iv # last.out.msg.h.iv

\* C4: two Randomized encryptions never return equal envelopes: their nonces
\* differ, and the nonce of each is the output of the CSPRNG whatever the
\* payload and the key are.
NonDeterminism ==
    (TwoEncrypts /\ BothUse("Randomized"))
    => (/\ first.out.msg # last.out.msg
        /\ first.out.msg.h.iv # last.out.msg.h.iv
        /\ first.out.msg.h.iv = encode(RandomBytes(first.drawn))
        /\ last.out.msg.h.iv = encode(RandomBytes(last.drawn)))

NonDeterminismWitness ==
    /\ TwoEncrypts
    /\ BothUse("Randomized")
    /\ first.payload = last.payload
    /\ first.keys = last.keys
    /\ first.out.msg.p # last.out.msg.p

\* C5: an envelope as it was returned decrypts to its payload under every
\* key configuration that holds, at any position, the key it was encrypted
\* with.
KeyRotation ==
    (/\ Decrypted
     /\ last.change.kind = "intact"
     /\ last.P = first.payload.P
     /\ first.keys[1] \in Range(last.keys))
    => (last.out.kind = "Ok" /\ last.out.val = first.payload.val)

KeyRotationWitness ==
    /\ Decrypted
    /\ last.change.kind = "intact"
    /\ last.P = first.payload.P
    /\ first.keys = <<KeyA>>
    /\ last.keys = <<KeyB, KeyA>>
    /\ last.out.kind = "Ok"
    /\ last.out.tried = <<1, 2>>

\* C6: an encryption uses the first key of the list and no other: its result
\* is the result under the list of the primary key alone; Deterministic
\* envelopes of one payload are equal when the primary keys are equal and
\* differ when they differ; primary_key returns the first element of keys.
UsesPrimaryOnly(c) ==
    EncOk(c) =>
        /\ primary_key(c.keys) = [ok |-> TRUE, key |-> c.keys[1]]
        /\ c.out = encrypt_with_key_config(c.strategy, c.payload, <<c.keys[1]>>, c.drawn)

\* the call made last
Latest == IF last = NoCall THEN first ELSE last

PrimaryKeyEncrypts ==
    /\ UsesPrimaryOnly(Latest)
    /\ (TwoEncrypts /\ BothUse("Deterministic") /\ first.payload = last.payload)
       => ((first.out.msg = last.out.msg) <=> (first.keys[1] = last.keys[1]))

PrimaryKeyEncryptsWitness ==
    /\ TwoEncrypts
    /\ BothUse("Deterministic")
    /\ first.payload = last.payload
    /\ first.keys = <<KeyA>>
    /\ last.keys = <<KeyA, KeyB>>
    /\ first.out.msg = last.out.msg

\* C7: an envelope with one byte of its decoded ciphertext, nonce or tag
\* changed (the lengths kept) gives the error Decryption, under the key
\* configuration it was encrypted under and under every other one.
TamperDetection ==
    (Decrypted /\ last.change.kind = "flip") => last.out.kind = "Decryption"

TamperDetectionWitness ==
    /\ Decrypted
    /\ last.change.kind = "flip"
    /\ last.change.field = "iv"
    /\ last.keys = first.keys
    /\ Len(last.keys) = 2
    /\ Len(decode(last.msg.h.iv).bytes) = NonceLen
    /\ last.msg.h.iv # first.out.msg.h.iv
    /\ last.out.kind = "Decryption"

\* C8: an envelope with a field that is not base64 gives the error
\* Base64Decoding, whichever of the three fields it is.
MalformedBase64 ==
    (Decrypted /\ last.change.kind = "text") => last.out.kind = "Base64Decoding"

MalformedBase64Witness ==
    /\ Decrypted
    /\ last.change.kind = "text"
    /\ last.change.field = "at"
    /\ Len(last.keys) > 0
    /\ last.out.kind = "Base64Decoding"

\* C9: an envelope with a field replaced by base64 of other bytes (of the
\* wrong length or content) gives Decryption or Deserialization, and no
\* decryption panics.
WrongLengthNeverCrashes ==
    /\ (Decrypted /\ last.change.kind = "bytes")
       => last.out.kind \in {"Decryption", "Deserialization"}
    /\ last.op = "decrypt" => last.out.kind # "Panic"

\* C10: when the fields decode to bytes of the right lengths and the cipher
\* opens the envelope under no key of the list, the result is Decryption; and
\* whenever the result is Decryption every key of the list has been tried.
WellFormed(msg) ==
    /\ decode(msg.p).ok
    /\ decode(msg.h.iv).ok /\ Len(decode(msg.h.iv).bytes) = NonceLen
    /\ decode(msg.h.at).ok /\ Len(decode(msg.h.at).bytes) = TagLen

Opens(msg, key) ==
    decrypt_in_place_detached(new_from_slice(key), decode(msg.h.iv).bytes, decode(msg.p).bytes,
                              decode(msg.h.at).bytes).ok

Exhaustion ==
    last.op = "decrypt" =>
        /\ (WellFormed(last.msg) /\ \A k \in Range(last.keys) : ~Opens(last.msg, k))
           => last.out.kind = "Decryption"
        /\ (last.change.kind = "intact" /\ first.keys[1] \notin Range(last.keys))
           => last.out.kind = "Decryption"
        /\ last.out.kind = "Decryption" => last.out.tried = AllTried(last.keys)

ExhaustionWitness ==
    /\ Decrypted
    /\ last.change.kind = "intact"
    /\ first.keys = <<KeyA>>
    /\ last.keys = <<KeyB, KeyB>>
    /\ last.out.kind = "Decryption"
    /\ last.out.tried = <<1, 2>>


\* the value decrypt hands back to its caller (tried is bookkeeping of the
\* model, not part of it)
Returned(out) == [kind |-> out.kind, val |-> out.val]

EmptyKeysOnEncrypt ==
    \A c \in {first, last} :
        (c.op = "encrypt" /\ c.keys = <<>> /\ c.payload.serializable)
        => c.out.kind = "Config"

\* C13: a decryption of a well-formed envelope under an empty key list
\* reports the configuration error NoKeysProvided.
EmptyKeysOnDecrypt ==
    (Decrypted /\ last.change.kind = "intact" /\ last.keys = <<>>)
    => last.out.kind = "Config"


\* C14: with key derivation disabled derive_key returns a raw key of 32
\* bytes unchanged and fails with the error InvalidKeyLength for a raw key
\* of any other length; with derivation enabled it returns a key of 32
\* bytes for a raw key of any length.
KeyLengthChecked ==
    first.op = "derive_key" =>
        /\ (~first.cfg.iterations.some /\ Len(first.raw) = KeyLen)
           => first.out = [kind |-> "Ok", key |-> first.raw]
        /\ (~first.cfg.iterations.some /\ Len(first.raw) # KeyLen)
           => first.out.kind = "InvalidKeyLength"
        /\ first.cfg.iterations.some
           => (first.out.kind = "Ok" /\ Len(first.out.key) = KeyLen)

\* C15: key() is derive_key of the first raw key: with derivation enabled
\* the PBKDF2 output for that raw key, the salt and the iterations of the
\* configuration, which is not the raw key; with derivation disabled the raw
\* key itself; and every raw key of the configuration is derived with the
\* same salt and iterations.
PrimaryKeyDerivation ==
    (first.op = "key" /\ Len(first.cfg.raw_keys) > 0) =>
        LET cfg == first.cfg
            raw == cfg.raw_keys[1]
        IN  /\ first.out = derive_key(cfg, raw)
            /\ cfg.iterations.some
               => /\ first.out.kind = "Ok"
                  /\ first.out.key = pbkdf2_hmac_array(raw, cfg.salt, cfg.iterations.n)
                  /\ first.out.key # raw
                  /\ \A i \in 1..Len(cfg.raw_keys) :
                        derive_key(cfg, cfg.raw_keys[i]).key =
                            pbkdf2_hmac_array(cfg.raw_keys[i], cfg.salt, cfg.iterations.n)
            /\ (~cfg.iterations.some /\ Len(raw) = KeyLen)
               => first.out = [kind |-> "Ok", key |-> raw]

PrimaryKeyDerivationWitness ==
    /\ first.op = "key"
    /\ Len(first.cfg.raw_keys) = 2
    /\ first.cfg.raw_keys[1] # first.cfg.raw_keys[2]
    /\ Len(first.cfg.raw_keys[1]) = KeyLen
    /\ first.cfg.iterations = Some(2)
    /\ first.out.kind = "Ok"
    /\ first.out.key # first.cfg.raw_keys[1]


\* C16: a payload that cannot be serialized makes encrypt return the error
\* Serialization and no envelope, whatever the key list is, the empty one
\* included: the payload is serialized before the keys are read.
SerializationFirst ==
    \A c \in {first, last} :
        (c.op = "encrypt" /\ ~Serializable(c.payload.val))
        => c.out = [kind |-> "Serialization", msg |-> NoMsg]

SerializationFirstWitness ==
    /\ first.op = "encrypt"
    /\ first.payload.val.t = "map"
    /\ ~Serializable(first.payload.val)
    /\ first.keys = <<>>
    /\ first.out.kind = "Serialization"


\* C17: when a key of the list authenticates the envelope but the recovered
\* bytes are not a value of the expected payload type, decrypt returns the
\* error Deserialization at that key: the keys after it are not tried and
\* the result is not Decryption.
DeserializationStops ==
    (Decrypted /\ last.change.kind = "intact" /\ last.P # first.payload.P
       /\ first.keys[1] \in Range(last.keys)
       /\ ~from_slice(last.P, to_vec(first.payload.val)).ok)
    => LET at == CHOOSE i \in 1..Len(last.keys) :
                    /\ last.keys[i] = first.keys[1]
                    /\ \A j \in 1..(i - 1) : last.keys[j] # first.keys[1]
       IN  /\ last.out.kind = "Deserialization"
           /\ last.out.tried = [j \in 1..at |-> j]

DeserializationStopsWitness ==
    /\ Decrypted
    /\ last.change.kind = "intact"
    /\ first.payload = Pl("String", JStr(Hi))
    /\ last.P = "U8"
    /\ first.keys = <<KeyA>>
    /\ last.keys = <<KeyA, KeyB>>
    /\ last.out.kind = "Deserialization"
    /\ last.out.tried = <<1>>


\* C18: with_new_payload on an envelope e returns what encrypt returns for
\* the new payload and the key configuration under the strategy of e: an
\* envelope that decrypts to the new payload, for Deterministic the envelope
\* encrypt returned for that payload and primary key; the result is the same
\* for every content of e, and e is as it was.
Renewed == EncOk(first) /\ last.op = "with_new_payload"

WithNewPayloadIsEncrypt ==
    Renewed =>
        /\ last.strategy = first.strategy
        /\ last.out = encrypt_with_key_config(first.strategy, last.payload, last.keys, last.drawn)
        /\ last.out.kind = "Ok"
           => Returned(decrypt_with_key_config(last.out.msg, last.payload.P, last.keys))
                 = [kind |-> "Ok", val |-> last.payload.val]
        /\ (/\ first.strategy = "Deterministic"
            /\ last.payload = first.payload
            /\ last.out.kind = "Ok"
            /\ last.keys[1] = first.keys[1])
           => last.out.msg = first.out.msg
        /\ \A e \in {NoMsg, last.out.msg} :
              with_new_payload_and_key_config(e, last.strategy, last.payload,
                                              last.keys, last.drawn) = last.out
        /\ last.e = first.out.msg

WithNewPayloadIsEncryptWitness ==
    /\ Renewed
    /\ first.strategy = "Randomized"
    /\ first.payload = Pl("String", JStr(<<>>))
    /\ last.payload = Pl("String", JStr(Hi))
    /\ first.keys = <<KeyA>>
    /\ last.keys = <<KeyB, KeyA>>
    /\ last.out.kind = "Ok"
    /\ last.out.msg # first.out.msg
    /\ decrypt_with_key_config(last.out.msg, "String", last.keys).val = JStr(Hi)


\* C19: through every sequence of prepending a new primary key, encrypting
\* a new value, re-encrypting a stored value with with_new_payload and
\* removing an old key no stored envelope was written under, every stored
\* envelope decrypts to its value under the current key list; and when every
\* stored envelope has been written under the current primary key (all
\* re-encrypted after the rotation to <<KeyB, KeyA>>), every one decrypts
\* under the primary key alone.
Reads(slot, keys) ==
    Returned(decrypt_with_key_config(store[slot].msg, store[slot].payload.P, keys))
        = [kind |-> "Ok", val |-> store[slot].payload.val]

HeldSlots == {slot \in Slots : store[slot].held}

ZeroDowntimeRotation ==
    /\ \A slot \in HeldSlots : Reads(slot, current)
    /\ (\A slot \in HeldSlots : store[slot].under = current[1])
       => \A slot \in HeldSlots : Reads(slot, <<current[1]>>)

ZeroDowntimeRotationWitness ==
    /\ current = <<KeyB, KeyA>>
    /\ HeldSlots = Slots
    /\ \A slot \in Slots : store[slot].prior = KeyA /\ store[slot].under = KeyB
    /\ \A slot \in Slots : Reads(slot, <<KeyB>>) /\ ~Reads(slot, <<KeyA>>)


\* C20: an envelope serializes to exactly the JSON object
\* {"p": ciphertext, "h": {"iv": nonce, "at": tag}}: these members and no
\* other, the same text whatever payload type and strategy the envelope is
\* bound to; and that JSON deserializes to an envelope equal to the original.
WireText(em) ==
    <<123, 34, 112, 34, 58, 34>> \o em.p
        \o <<34, 44, 34, 104, 34, 58, 123, 34, 105, 118, 34, 58, 34>> \o em.h.iv
        \o <<34, 44, 34, 97, 116, 34, 58, 34>> \o em.h.at \o <<34, 125, 125>>

MemberNames(val) == [j \in 1..Len(val.o) |-> val.o[j][1]]

WireRoundTrip ==
    last.op = "to_json" =>
        LET read == from_slice("Value", last.json)
        IN  /\ last.json = WireText(last.em)
            /\ read.ok
            /\ MemberNames(read.val) = << <<112>>, <<104>> >>
            /\ MemberNames(read.val.o[2][2]) = << <<105, 118>>, <<97, 116>> >>
            /\ \A P \in PayloadTypes, S \in Strategies :
                  to_vec(to_value(Bound(first.out.msg, P, S))) = last.json
            /\ last.back = [ok |-> TRUE, em |-> last.em]
            /\ last.back.em.p = first.out.msg.p
            /\ last.back.em.h = first.out.msg.h

WireRoundTripWitness ==
    /\ last.op = "to_json"
    /\ first.strategy = "Randomized"
    /\ first.payload = Pl("String", JStr(Hi))
    /\ Len(first.keys) = 2
    /\ Len(last.em.p) > 0
    /\ last.back.ok
    /\ last.back.em = last.em


\* C21: every envelope encrypt returns has three fields of valid base64; the
\* decoded ciphertext is as long as the serialized payload, the decoded tag
\* is TagLen bytes, and the decoded nonce has the one length the cipher
\* expects, which is the length the strategy generates, for both strategies
\* and every call.
EnvelopeShape ==
    EncOk(first) =>
        LET bytes == to_vec(first.payload.val)
            p == decode(first.out.msg.p)
            iv == decode(first.out.msg.h.iv)
            at == decode(first.out.msg.h.at)
        IN  /\ p.ok /\ iv.ok /\ at.ok
            /\ Len(p.bytes) = Len(bytes)
            /\ Len(iv.bytes) = NonceLen
            /\ Len(at.bytes) = TagLen
            /\ \A S \in Strategies, r \in RandomDraws :
                  LET made == generate_nonce(S, bytes, first.keys[1], r)
                  IN  made.ok /\ Len(made.nonce) = NonceLen


\* C22: whatever calls the other threads are in and however the statements
\* of the threads interleave, a call returns what it returns when it runs
\* alone: an encrypt the result of encrypt_with_key_config for its payload,
\* key list and the CSPRNG output it drew, a decrypt the result of
\* decrypt_with_key_config for its envelope and key list.
Alone(l) ==
    IF l.call.op = "encrypt"
    THEN LET out == encrypt_with_key_config(l.call.strategy, l.call.payload,
                                            l.call.keys, l.drawn)
         IN  [kind |-> out.kind, val |-> JNull, msg |-> out.msg]
    ELSE LET out == decrypt_with_key_config(l.call.msg, l.call.P, l.call.keys)
         IN  [kind |-> out.kind, val |-> out.val, msg |-> NoMsg]

ThreadSafety ==
    \A t \in Threads : locals[t].pc = "done" => locals[t].out = Alone(locals[t])

ThreadSafetyWitness ==
    /\ locals[1].pc = "done" /\ locals[1].call.op = "decrypt" /\ locals[1].out.kind = "Ok"
    /\ locals[2].pc = "done" /\ locals[2].call.op = "encrypt"
    /\ locals[2].call.strategy = "Randomized" /\ locals[2].out.kind = "Ok"
    /\ locals[1].call.keys = locals[2].call.keys


\* C23: for a key-configuration type with a default value, encrypt returns
\* what encrypt_with_key_config returns for the key list of the default
\* value, and decrypt what decrypt_with_key_config returns for it, the
\* errors included.
DefaultShorthands ==
    /\ first.op = "encrypt_default"
       => first.out = encrypt_with_key_config(first.strategy, first.payload,
                                              first.K.default, first.drawn)
    /\ last.op = "decrypt_default"
       => last.out = decrypt_with_key_config(last.msg, last.P, last.K.default)

DefaultShorthandsWitness ==
    /\ first.op = "encrypt_default"
    /\ first.strategy = "Randomized"
    /\ first.K.default = <<KeyB, KeyA>>
    /\ first.out.kind = "Ok"
    /\ last.op = "decrypt_default"
    /\ last.change.kind = "text"
    /\ last.out.kind = "Base64Decoding"


\* C24: an envelope written to a json or jsonb column and read back is the
\* envelope that was written, with the same p, iv and at, and decrypts to
\* the payload that was encrypted.
StorageRoundTrip ==
    (EncOk(first) /\ last.op = "sql") =>
        /\ last.back = [ok |-> TRUE, em |-> last.em]
        /\ last.back.em.p = first.out.msg.p
        /\ last.back.em.h = first.out.msg.h
        /\ Returned(decrypt_with_key_config([p |-> last.back.em.p, h |-> last.back.em.h],
                                            first.payload.P, first.keys))
              = [kind |-> "Ok", val |-> first.payload.val]

StorageRoundTripWitness ==
    /\ EncOk(first)
    /\ last.op = "sql"
    /\ last.col = "Jsonb"
    /\ last.raw # to_vec(to_value(last.em))
    /\ first.strategy = "Randomized"
    /\ last.back.ok
    /\ last.back.em = last.em


\* C25: a decrypt that has read the key list tries the keys in list order
\* from the primary key on, each at most once and at most Len(keys) of them,
\* tries no key after one that authenticates, and ends with Ok,
\* Deserialization or Decryption.
Tries(l) == [j \in 1..Len(l.attempts) |-> l.attempts[j].key]

Authenticates(l, j) ==
    decrypt_in_place_detached(new_from_slice(l.keys[j]), l.nonce, l.payload, l.tag).ok

OrderedTrialOf(l) ==
    /\ Tries(l) = [j \in 1..Len(l.attempts) |-> j]
    /\ Len(l.attempts) <= Len(l.keys)
    /\ \A j \in 1..(Len(l.attempts) - 1) : ~Authenticates(l, j)
    /\ l.pc = "done" =>
          /\ l.out.kind \in {"Ok", "Deserialization", "Decryption"}
          /\ l.out.kind \in {"Ok", "Deserialization"}
             => (Len(l.attempts) > 0 /\ Authenticates(l, Len(l.attempts)))
          /\ l.out.kind = "Decryption"
             => (Len(l.attempts) = Len(l.keys)
                 /\ \A j \in 1..Len(l.keys) : ~Authenticates(l, j))

OrderedKeyTrial ==
    \A t \in Threads :
        (locals[t].call.op = "decrypt" /\ locals[t].read) => OrderedTrialOf(locals[t])


\* C26: a decrypt never writes the envelope it is called on, whether it
\* succeeds or fails, and keeps the decoded ciphertext as it was decoded:
\* the buffer every key attempt hands to the cipher is that ciphertext,
\* whatever the attempts before it did to their buffers.
FreshAttempts(l) ==
    \A j \in 1..Len(l.attempts) : l.attempts[j].buffer = decode(l.call.msg.p).bytes

KeepsEnvelope(t) ==
    locals[t].call.op = "decrypt" =>
        /\ locals'[t].call = locals[t].call
        /\ locals[t].pc # "decode_p" => locals'[t].payload = locals[t].payload

DecryptLeavesUnchanged ==
    /\ [](\A t \in Threads : locals[t].call.op = "decrypt" => FreshAttempts(locals[t]))
    /\ [][\A t \in Threads : KeepsEnvelope(t)]_vars

DecryptLeavesUnchangedWitness ==
    \E t \in Threads :
        LET l == locals[t]
        IN  /\ l.call.op = "decrypt"
            /\ l.pc = "done"
            /\ l.out.kind = "Ok"
            /\ Len(l.attempts) = 2
            /\ l.attempts[2].buffer = l.attempts[1].buffer
            /\ l.buffer # l.payload
            /\ l.payload = decode(l.call.msg.p).bytes


\* C27: decrypt decodes the ciphertext, then the nonce, then the tag, and
\* only then reads the key list: an envelope with a field that is not base64
\* ends with Base64Decoding at its first such field in that order, whatever
\* the key list is, with the key list unread and no AEAD attempt made; and a
\* call that has read the key list has decoded all three fields.
BadFields(msg) == {f \in Fields : ~decode(Field(msg, f)).ok}

DecodeBeforeKeysOf(l) ==
    /\ l.read => BadFields(l.call.msg) = {}
    /\ (l.pc = "done" /\ BadFields(l.call.msg) # {})
       => /\ l.out.kind = "Base64Decoding"
          /\ ~l.read /\ l.keys = <<>> /\ l.attempts = <<>>
          /\ "p" \in BadFields(l.call.msg) => l.nonce = <<>> /\ l.tag = <<>>
          /\ ("p" \notin BadFields(l.call.msg) /\ "iv" \in BadFields(l.call.msg))
             => l.payload = decode(l.call.msg.p).bytes /\ l.tag = <<>>
    /\ l.out.kind = "Base64Decoding" => BadFields(l.call.msg) # {}
    /\ (BadFields(l.call.msg) # {} /\ l.pc # "done")
       => l.pc \in {"decode_p", "decode_iv", "decode_at"}

DecodeBeforeKeys ==
    \A t \in Threads : locals[t].call.op = "decrypt" => DecodeBeforeKeysOf(locals[t])

DecodeBeforeKeysWitness ==
    \E t \in Threads :
        LET l == locals[t]
        IN  /\ l.call.op = "decrypt"
            /\ l.pc = "done"
            /\ BadFields(l.call.msg) = {"iv", "at"}
            /\ l.call.keys = <<KeyA>>
            /\ l.out.kind = "Base64Decoding"
            /\ l.payload # <<>>
            /\ l.attempts = <<>>


\* C29: an envelope as encrypt returned it gives the same outcome under two
\* key lists of pairwise distinct keys that are permutations of each other:
\* its payload if the key it was encrypted with is in the list, Decryption
\* if not; the order decides only how many keys are tried.
Distinct(keys) == Cardinality(Range(keys)) = Len(keys)

Reorderings(keys) ==
    {other \in KeyConfigs : Len(other) = Len(keys) /\ Range(other) = Range(keys)}

\* the position of key k in the list keys
PositionOf(k, keys) == CHOOSE i \in 1..Len(keys) : keys[i] = k

KeyOrderIrrelevant ==
    (Decrypted /\ last.change.kind = "intact" /\ Distinct(last.keys))
    => /\ \A other \in Reorderings(last.keys) :
             LET out == decrypt_with_key_config(last.msg, last.P, other)
             IN  /\ Returned(out) = Returned(last.out)
                 /\ first.keys[1] \in Range(other)
                    => Len(out.tried) = PositionOf(first.keys[1], other)
       /\ last.P = first.payload.P
          => Returned(last.out) =
                IF first.keys[1] \in Range(last.keys)
                THEN [kind |-> "Ok", val |-> first.payload.val]
                ELSE [kind |-> "Decryption", val |-> JNull]

KeyOrderIrrelevantWitness ==
    /\ Decrypted
    /\ last.change.kind = "intact"
    /\ last.P = first.payload.P
    /\ first.keys = <<KeyA>>
    /\ last.keys = <<KeyB, KeyA>>
    /\ last.out.kind = "Ok"
    /\ Len(last.out.tried) = 2
    /\ Len(decrypt_with_key_config(last.msg, last.P, <<KeyA, KeyB>>).tried) = 1


\* C30: decode_keys of either decoder returns one key of KeyLen bytes for
\* every string of its input, in the order of the input, each the bytes its
\* string was written from; and it panics, instead of returning a shorter
\* list or a key padded or cut, when a string is not valid in the format or
\* does not decode to KeyLen bytes.
KeyDecoders ==
    first.op = "decode_keys" =>
        LET list == first.list
        IN  IF \A i \in 1..Len(list) : list[i].sound
            THEN /\ first.out.kind = "Ok"
                 /\ Len(first.out.keys) = Len(list)
                 /\ \A i \in 1..Len(list) :
                       /\ first.out.keys[i] = list[i].bytes
                       /\ Len(first.out.keys[i]) = KeyLen
            ELSE first.out = [kind |-> "Panic", keys |-> <<>>]

KeyDecodersWitness ==
    /\ first.op = "decode_keys"
    /\ first.decoder = "Hex"
    /\ first.out.kind = "Ok"
    /\ first.out.keys = <<KeyB, KeyA>>

\* a list with a string that is not a key
KeyDecodersPanic ==
    /\ first.op = "decode_keys"
    /\ first.decoder = "Base64"
    /\ Len(first.list) = 2
    /\ first.list[1].sound /\ ~first.list[2].sound
    /\ first.out.kind = "Panic"

=============================================================================
